---- MODULE Spec2Model ----
(***************************************************************************)
(* The von Mises-Fisher distribution of                                    *)
(* tensorflow_probability/python/distributions/von_mises_fisher.py:        *)
(* construction, log-normalization, log_prob, mean, covariance, the        *)
(* Householder rotation and the two samplers, as a state machine over one  *)
(* distribution object and the calls made on it.                           *)
(*                                                                         *)
(* Numbers.  Tensor entries are real numbers.  The model computes with     *)
(* exact rationals <<"rat", n, d>> (n, d integers written in limbs, d > 0),*)
(* the not-a-number value <<"nan">>, and, for the transcendental functions *)
(* (Bessel, log, lgamma, logsumexp), terms <<tag, arguments>> that stand   *)
(* for the value of the function at those arguments.  Integers are written *)
(* as little-endian sequences of limbs because the thresholds of the code  *)
(* (1e-12, 1e-5) and unit vectors that resolve them do not fit a machine   *)
(* integer of the model checker.                                           *)
(***************************************************************************)
EXTENDS Integers, Sequences, FiniteSets, TLC

\* ------------------------------------------------------------------------
\* Integers of any size: <<l1, ..., lk>> is l1 + l2*Base + ... ; the limbs
\* of a number all have its sign, are below Base in absolute value, and
\* the last is not 0; zero is <<>>.  The form is canonical: equal integers
\* are equal sequences.  Numbers of one limb are computed with directly.
\* ------------------------------------------------------------------------
Base == 10 * 10 * 10

\* Limbs in 0..Base-1, with a last limb -1 when the number is negative.
RECURSIVE BCarry(_, _)
BCarry(s, c) ==
    IF s = <<>>
    THEN IF c = 0 THEN <<>>
         ELSE IF c = -1 THEN <<-1>>
         ELSE <<c % Base>> \o BCarry(<<>>, c \div Base)
    ELSE LET t == Head(s) + c
         IN  <<t % Base>> \o BCarry(Tail(s), t \div Base)

RECURSIVE BStrip(_)
BStrip(s) ==
    IF s = <<>> THEN <<>>
    ELSE IF s[Len(s)] = 0 THEN BStrip(SubSeq(s, 1, Len(s) - 1))
    ELSE s

BNorm(s) ==
    LET c == BStrip(BCarry(s, 0))
    IN  IF c = <<>> \/ c[Len(c)] > 0 THEN c
        ELSE LET m == BStrip(BCarry([i \in 1..Len(s) |-> 0 - s[i]], 0))
             IN  [i \in 1..Len(m) |-> 0 - m[i]]

BInt(n) ==
    IF n = 0 THEN <<>>
    ELSE IF n < Base /\ 0 - n < Base THEN <<n>>
    ELSE BNorm(<<n>>)

Limb(a, i) == IF i <= Len(a) THEN a[i] ELSE 0

MaxOf(i, j) == IF i >= j THEN i ELSE j

BAdd(a, b) ==
    IF Len(a) <= 1 /\ Len(b) <= 1 THEN BInt(Limb(a, 1) + Limb(b, 1))
    ELSE BNorm([i \in 1..MaxOf(Len(a), Len(b)) |-> Limb(a, i) + Limb(b, i)])

BNeg(a) == [i \in 1..Len(a) |-> 0 - a[i]]

BSub(a, b) == BAdd(a, BNeg(b))

RECURSIVE ConvSum(_, _, _, _)
ConvSum(a, b, k, i) ==
    IF i > Len(a) \/ i > k THEN 0
    ELSE (IF k - i + 1 <= Len(b) THEN a[i] * b[k - i + 1] ELSE 0)
         + ConvSum(a, b, k, i + 1)

BMul(a, b) ==
    IF a = <<>> \/ b = <<>> THEN <<>>
    ELSE IF a = <<1>> THEN b
    ELSE IF b = <<1>> THEN a
    ELSE IF Len(a) = 1 /\ Len(b) = 1 THEN BInt(a[1] * b[1])
    ELSE BNorm([k \in 1..(Len(a) + Len(b) - 1) |-> ConvSum(a, b, k, 1)])

BSign(a) == IF a = <<>> THEN 0 ELSE IF a[Len(a)] < 0 THEN -1 ELSE 1

BLess(a, b) == BSign(BSub(a, b)) = -1

\* ------------------------------------------------------------------------
\* Reals: exact rationals <<"rat", n, d>> with d > 0, and NaN.  Fractions
\* of one-limb numbers are computed with directly and kept in lowest terms;
\* larger ones are kept as computed.  REq and RLess compare by
\* cross-multiplication.
\* ------------------------------------------------------------------------
NaN == <<"nan">>

IsNaN(a) == a[1] = "nan"

IsRat(a) == a[1] = "rat"

RECURSIVE Gcd(_, _)
Gcd(i, j) == IF j = 0 THEN i ELSE Gcd(j, i % j)

\* n / d for machine integers n, d with d > 0, in lowest terms.
Rat(n, d) ==
    LET g == Gcd(IF n < 0 THEN 0 - n ELSE n, d)
    IN  <<"rat", BInt(n \div g), BInt(d \div g)>>

R0 == Rat(0, 1)

R1 == Rat(1, 1)

R2 == Rat(2, 1)

Small(a) == Len(a[2]) <= 1 /\ Len(a[3]) <= 1

\* The number of limbs 0 that both n and d start with, n and d not <<>>.
RECURSIVE ZeroLimbs(_, _, _)
ZeroLimbs(n, d, k) ==
    IF n[k + 1] = 0 /\ d[k + 1] = 0 THEN ZeroLimbs(n, d, k + 1) ELSE k

\* n / d for integers of any size, d > 0: the common power of Base is
\* cancelled, and a fraction of one-limb numbers is put in lowest terms.
BigRat(n, d) ==
    IF n = <<>> THEN <<"rat", <<>>, <<1>>>>
    ELSE LET k == ZeroLimbs(n, d, 0)
         IN  IF Len(n) - k = 1 /\ Len(d) - k = 1 THEN Rat(n[k + 1], d[k + 1])
             ELSE IF k = 0 THEN <<"rat", n, d>>
             ELSE <<"rat", SubSeq(n, k + 1, Len(n)), SubSeq(d, k + 1, Len(d))>>

Num(a) == Limb(a[2], 1)

Den(a) == a[3][1]

RNeg(a) == IF IsNaN(a) THEN NaN ELSE <<"rat", BNeg(a[2]), a[3]>>

RAdd(a, b) ==
    IF IsNaN(a) \/ IsNaN(b) THEN NaN
    ELSE IF Small(a) /\ Small(b)
         THEN Rat(Num(a) * Den(b) + Num(b) * Den(a), Den(a) * Den(b))
    ELSE IF a[3] = b[3] THEN BigRat(BAdd(a[2], b[2]), a[3])
    ELSE BigRat(BAdd(BMul(a[2], b[3]), BMul(b[2], a[3])), BMul(a[3], b[3]))

RSub(a, b) == RAdd(a, RNeg(b))

RMul(a, b) ==
    IF IsNaN(a) \/ IsNaN(b) THEN NaN
    ELSE IF Small(a) /\ Small(b) THEN Rat(Num(a) * Num(b), Den(a) * Den(b))
    ELSE BigRat(BMul(a[2], b[2]), BMul(a[3], b[3]))

\* a / b.  0/0 is NaN; x/0 with x # 0 is an infinity, which the code's
\* finiteness checks treat like NaN and which is written NaN here.
RDiv(a, b) ==
    IF IsNaN(a) \/ IsNaN(b) THEN NaN
    ELSE IF b[2] = <<>> THEN NaN
    ELSE IF Small(a) /\ Small(b)
         THEN IF Num(b) > 0 THEN Rat(Num(a) * Den(b), Den(a) * Num(b))
              ELSE Rat(0 - Num(a) * Den(b), 0 - Den(a) * Num(b))
    ELSE IF BSign(b[2]) = 1 THEN BigRat(BMul(a[2], b[3]), BMul(a[3], b[2]))
    ELSE BigRat(BNeg(BMul(a[2], b[3])), BNeg(BMul(a[3], b[2])))

\* Comparisons with NaN are false, as in IEEE arithmetic.
RLess(a, b) ==
    /\ IsRat(a) /\ IsRat(b)
    /\ IF Small(a) /\ Small(b) THEN Num(a) * Den(b) < Num(b) * Den(a)
       ELSE BLess(BMul(a[2], b[3]), BMul(b[2], a[3]))

REq(a, b) ==
    /\ IsRat(a) /\ IsRat(b)
    /\ IF Small(a) /\ Small(b) THEN Num(a) * Den(b) = Num(b) * Den(a)
       ELSE BMul(a[2], b[3]) = BMul(b[2], a[3])

RLeq(a, b) == IsRat(a) /\ IsRat(b) /\ ~RLess(b, a)

RGreater(a, b) == RLess(b, a)

RMax(a, b) == IF IsNaN(a) \/ IsNaN(b) THEN NaN ELSE IF RLess(a, b) THEN b ELSE a

\* tf.check_numerics: a tensor entry is finite.
IsFinite(a) == ~IsNaN(a)

\* ------------------------------------------------------------------------
\* Vectors (the innermost tensor axis): sequences of reals.
\* ------------------------------------------------------------------------
VSub(a, b) == [i \in 1..Len(a) |-> RSub(a[i], b[i])]

RECURSIVE SumFrom(_, _)
SumFrom(v, i) == IF i > Len(v) THEN R0 ELSE RAdd(v[i], SumFrom(v, i + 1))

\* tf.reduce_sum(a * b, axis=-1)
Dot(a, b) == SumFrom([i \in 1..Len(a) |-> RMul(a[i], b[i])], 1)

SumSq(a) == Dot(a, a)

VEq(a, b) == Len(a) = Len(b) /\ \A i \in 1..Len(a) : REq(a[i], b[i])

\* 10^6 and 10^12 as reals.
Million == <<"rat", BMul(BInt(1000), BInt(1000)), BInt(1)>>

Million2 == RMul(Million, Million)

\* tf.nn.l2_normalize(x, axis=-1) = x * rsqrt(max(sum(x^2), epsilon)) with the
\* default epsilon = 1e-12.  The factor is irrational in general; the model
\* keeps its square, which is all that the rotation uses.
L2Epsilon == RDiv(R1, Million2)

L2FactorSq(x) == RDiv(R1, RMax(SumSq(x), L2Epsilon))

\* basis = (1, 0, ..., 0)
Basis(event_dim) == [i \in 1..event_dim |-> IF i = 1 THEN R1 ELSE R0]

\* _rotate, mutated: the reflection vector is not normalised at all.
rotate_unnormalised(mean_direction, samples) ==
    LET d == VSub(Basis(Len(mean_direction)), mean_direction)
        proj == Dot(samples, d)
    IN  [i \in 1..Len(samples) |->
            RSub(samples[i], RMul(R2, RMul(proj, d[i])))]

\* _rotate: with u = l2_normalize(basis - mean_direction),
\*   samples - 2 * reduce_sum(samples * u, axis=-1, keepdims=True) * u.
\* u = d * f with d = basis - mean_direction and f*f = L2FactorSq(d), so
\* reduce_sum(samples * u) * u = (samples . d) * d * (f*f).
rotate(mean_direction, samples) ==
    LET d == VSub(Basis(Len(mean_direction)), mean_direction)
        ff == L2FactorSq(d)
        proj == Dot(samples, d)
    IN  [i \in 1..Len(samples) |->
            RSub(samples[i], RMul(R2, RMul(RMul(proj, d[i]), ff)))]

\* ------------------------------------------------------------------------
\* The mean directions of the model: unit vectors with rational entries.
\* HalfAngle(D, p, q) is the unit vector at angle 2*atan(p/q) from the basis
\* vector, in the plane of the first two axes:
\*   ((q^2 - p^2) / (q^2 + p^2), 2pq / (q^2 + p^2), 0, ..., 0).
\* ------------------------------------------------------------------------
HalfAngle(event_dim, p, q) ==
    LET pp == BMul(p, p)
        qq == BMul(q, q)
        n  == BAdd(pp, qq)
    IN  [i \in 1..event_dim |->
            IF i = 1 THEN <<"rat", BSub(qq, pp), n>>
            ELSE IF i = 2 THEN <<"rat", BMul(BInt(2), BMul(p, q)), n>>
            ELSE R0]

\* ------------------------------------------------------------------------
\* Bounds of the model.
\* ------------------------------------------------------------------------
\* Batch lanes of concentration (its shape is [NumLanes]; sample() draws
\* n = 1 sample per lane).
NumLanes == 2

\* Event dimensions tried at construction: 1..MaxDim.
MaxDim == 6

\* Iterations of the rejection loop that are counted.
MaxIterations == 3

Lanes == 1..NumLanes

\* ------------------------------------------------------------------------
\* Inputs of the constructor.
\* ------------------------------------------------------------------------
\* c times the k-th unit vector.
Axis(event_dim, k, c) == [i \in 1..event_dim |-> IF i = k THEN c ELSE R0]

\* Unit vectors at an angle to the basis vector so small that the guard of
\* l2_normalize matters; they lie in the plane of the first two axes and are
\* tried for event_dim = 2.
NearBasis(event_dim) ==
    IF event_dim # 2 THEN {}
    ELSE { \* angle 2e-6: |basis - mu|^2 >= 1e-12
           HalfAngle(event_dim, BInt(1), BMul(BInt(1000), BInt(1000))),
           \* angle 5e-7: 0 < |basis - mu|^2 < 1e-12
           HalfAngle(event_dim, BInt(1), BMul(BInt(4000), BInt(1000))) }

\* The last of these is not unit length.
MeanDirections(event_dim) ==
    IF event_dim = 1 THEN {<<R1>>, <<R2>>}
    ELSE { Basis(event_dim),
           Axis(event_dim, 2, R1),
           HalfAngle(event_dim, BInt(1), BInt(2)),
           Axis(event_dim, 2, R2) }
         \cup NearBasis(event_dim)

\* A positive concentration for which sqrt(4 kappa^2 + dim^2) is rational:
\* kappa = 3 dim / 8 gives sqrt = 5 dim / 4, b = 1/2, x = 1/3 (dim = D - 1).
KappaPos(event_dim) == IF event_dim = 1 THEN Rat(3, 8) ELSE Rat(3 * (event_dim - 1), 8)

\* The batches of concentrations tried: lane 1 at 0 and the others positive,
\* all lanes positive, all lanes 0, lane 1 NaN and the others positive.
MixedBatch(event_dim) == [i \in Lanes |-> IF i = 1 THEN R0 ELSE KappaPos(event_dim)]

Batches(event_dim) ==
    { MixedBatch(event_dim),
      [i \in Lanes |-> KappaPos(event_dim)],
      [i \in Lanes |-> R0],
      [i \in Lanes |-> IF i = 1 THEN NaN ELSE KappaPos(event_dim)] }

\* The (mean_direction, concentration) pairs tried: every mean direction with
\* the mixed batch, and every batch with the mean direction on the second
\* axis (the first, for a scalar event).
CtorInputs(event_dim) ==
    {<<m, MixedBatch(event_dim)>> : m \in MeanDirections(event_dim)}
    \cup {<<Axis(event_dim, IF event_dim = 1 THEN 1 ELSE 2, R1), k>> :
             k \in Batches(event_dim)}

\* Tolerance of tf.assert_near(1., norm): ten float32 epsilons, about 1e-6.
AssertNearTol == RDiv(R1, Million)

\* The squares of 1 - tol and 1 + tol.
Band(tol) ==
    <<RMul(RSub(R1, tol), RSub(R1, tol)), RMul(RAdd(R1, tol), RAdd(R1, tol))>>

AssertNearBand == Band(AssertNearTol)

\* |1 - sqrt(sumsq)| <= tol, stated on the square.
NormNear1(sumsq, band) == RLeq(band[1], sumsq) /\ RLeq(sumsq, band[2])

UnitLength(v) == NormNear1(SumSq(v), AssertNearBand)

\* ------------------------------------------------------------------------
\* Errors.
\* ------------------------------------------------------------------------
NoError == ""

ErrNdims == "ValueError: vMF ndims > 5 is not currently supported"

ErrNdimsAssert == "InvalidArgumentError: vMF ndims > 5 is not currently supported"

ErrNegative == "InvalidArgumentError: concentration must be non-negative"

ErrScalarEvent == "InvalidArgumentError: mean_direction may not have scalar event shape"

ErrNotUnit == "InvalidArgumentError: mean_direction must be unit-length"

ErrStatic == "ValueError: event shape must be statically known"

ErrBesselOrder == "ValueError: Evaluating bessel_i by recurrence becomes imprecise for large v"

ErrBesselKey == "KeyError: v"

ErrBesselNumerics == "InvalidArgumentError: besseli : Tensor had NaN or Inf values"

ErrCovariance == "ValueError: vMF covariance is numerically unstable for dim>2"

ErrSampleUnit == "InvalidArgumentError: samples must be unit length"

ErrWNumerics == "InvalidArgumentError: w : Tensor had NaN or Inf values"

ErrU3dNumerics == "InvalidArgumentError: u in _sample_3d : Tensor had NaN or Inf values"

ErrDim0Range == "InvalidArgumentError: samples_dim0 outside [-1.01, 1.01]"

ErrSamplesNumerics == "InvalidArgumentError: samples : Tensor had NaN or Inf values"

ErrSampleNorm == "InvalidArgumentError: sample norm differs from 1 by more than 1e-4"

ErrRotatedBasis == "InvalidArgumentError: rotated basis differs from mean_direction"

\* The numerical-instability errors: what tf.check_numerics and the runtime
\* asserts of _sample_n raise.
NumericalErrors ==
    { ErrBesselNumerics, ErrWNumerics, ErrU3dNumerics, ErrDim0Range,
      ErrSamplesNumerics, ErrSampleNorm, ErrRotatedBasis }

\* ------------------------------------------------------------------------
\* VonMisesFisher.__init__
\* ------------------------------------------------------------------------
\* The assertions list (run under tf.control_dependencies): the first that
\* fails, or NoError.  static_shape: mean_direction's innermost dimension is
\* statically known.
CtorAssertions(mean_direction, concentration, validate_args, static_shape) ==
    IF ~validate_args THEN NoError
    ELSE IF \E i \in Lanes : ~RLeq(R0, concentration[i]) THEN ErrNegative
    ELSE IF ~(Len(mean_direction) > 1) THEN ErrScalarEvent
    ELSE IF ~UnitLength(mean_direction) THEN ErrNotUnit
    ELSE IF ~static_shape /\ ~(Len(mean_direction) <= 5) THEN ErrNdimsAssert
    ELSE NoError

\* The error __init__ ends with, NoError when the object is built.  The
\* ValueError is raised while the graph is built, before any assertion runs.
CtorError(mean_direction, concentration, validate_args, static_shape) ==
    IF static_shape /\ Len(mean_direction) > 5 THEN ErrNdims
    ELSE CtorAssertions(mean_direction, concentration, validate_args, static_shape)

\* ------------------------------------------------------------------------
\* _bessel_ive(v, z): I_v(z) * exp(-abs(z)).  The order v is a half-integer
\* and is written v2 = 2 v.  z is a tensor over the batch lanes.  The result
\* is [err, val]: the error raised, or the tensor of values.
\*
\* The cache argument has no effect and is left out: the outer call starts
\* from an empty dict, and an empty dict passed down is falsy, so
\* `cache or {}` gives every recursive call a fresh one.
\* ------------------------------------------------------------------------
\* wrap = tf.check_numerics(result, 'besseli{}'.format(v)); not conditional.
wrap(result) ==
    IF \E i \in 1..Len(result) : ~IsFinite(result[i])
    THEN [err |-> ErrBesselNumerics, val |-> <<>>]
    ELSE [err |-> NoError, val |-> result]

\* One lane of the four closed forms.
IveBase(v2, z) ==
    IF IsNaN(z) THEN NaN
    ELSE IF v2 = 0 THEN <<"bessel_i0e", z>>
    ELSE IF v2 = 2 THEN <<"bessel_i1e", z>>
    ELSE IF v2 = 1
         THEN IF RGreater(z, R0) THEN <<"sqrt(2/pi)*sinhe(z)*rsqrt(z)", z>>
              ELSE <<"sqrt(2/pi)*sinhe(z)", z>>
    ELSE IF RGreater(z, R0) THEN <<"sqrt(2/pi)*coshe(z)*rsqrt(z)", z>>
         ELSE <<"sqrt(2/pi)*coshe(z)", z>>

\* One lane of  ive(v - 2) - (2 * (v - 1)) * ive(v - 1) / z : the division
\* is by z itself, so a lane with z = 0 is not finite.
IveRecurrence(v2, a, b, z) ==
    IF IsNaN(z) \/ REq(z, R0) THEN NaN
    ELSE <<"ive(v-2) - 2(v-1)*ive(v-1)/z", v2, a, b, z>>

RECURSIVE bessel_ive(_, _)
bessel_ive(v2, z) ==
    IF v2 >= 4 THEN [err |-> ErrBesselOrder, val |-> <<>>]
    ELSE IF v2 \in {0, 2, 1, -1}
         THEN wrap([i \in 1..Len(z) |-> IveBase(v2, z[i])])
    ELSE IF v2 <= 2 THEN [err |-> ErrBesselKey, val |-> <<>>]
    ELSE LET a == bessel_ive(v2 - 4, z)
             b == bessel_ive(v2 - 2, z)
         IN  IF a.err # NoError THEN a
             ELSE IF b.err # NoError THEN b
             ELSE wrap([i \in 1..Len(z) |->
                          IveRecurrence(v2, a.val[i], b.val[i], z[i])])

\* ------------------------------------------------------------------------
\* The distribution object and its statistics.  d is the object:
\*   event_dim, static_shape, mean_direction, concentration (one entry per
\*   lane), validate_args, allow_nan_stats.
\* A call returns [err, val, bessel_z]: the error raised, the result tensor
\* (one entry per lane) and the tensor z the Bessel evaluator was called on.
\* ------------------------------------------------------------------------
Raise(e) == [err |-> e, val |-> <<>>, bessel_z |-> <<>>]

Positive(kappa) == RGreater(kappa, R0)

\* tf.where(concentration > 0, concentration, tf.ones_like(concentration)),
\* mutated: the concentration is passed on as it is.
unsafe_conc(concentration) == concentration

\* safe_conc = tf.where(concentration > 0, concentration,
\*                      tf.ones_like(concentration))
safe_conc(concentration) ==
    [i \in 1..Len(concentration) |->
        IF Positive(concentration[i]) THEN concentration[i] ELSE R1]

\* The errors raised while the graph is built, before any tensor is computed.
GraphErrors == {ErrStatic, ErrBesselOrder, ErrBesselKey, ErrCovariance, ErrNdims}

\* A result that needed the Bessel evaluations ive (a sequence of [err, val])
\* on z: the first error among them, or the tensor val.
BesselResult(z, ive, val) ==
    IF \E k \in 1..Len(ive) : ive[k].err # NoError
    THEN [Raise(ive[CHOOSE k \in 1..Len(ive) :
                      /\ ive[k].err # NoError
                      /\ \A j \in 1..(k - 1) : ive[j].err = NoError].err)
            EXCEPT !.bessel_z = z]
    ELSE [err |-> NoError, val |-> val, bessel_z |-> z]

\* Lines 251-261, given safe_conc and the value of _bessel_ive on it.
log_normalization_of(d, z, ive) ==
    BesselResult(z, <<ive>>,
        [i \in Lanes |->
            IF Positive(d.concentration[i])
            THEN <<"-safe_lognorm", d.event_dim, z[i], ive.val[i]>>
            ELSE <<"log_nsphere_surface_area", d.event_dim>>])

log_normalization_on(d, z) ==
    log_normalization_of(d, z, bessel_ive(d.event_dim - 2, z))

\* _log_normalization
log_normalization(d) ==
    IF ~d.static_shape THEN Raise(ErrStatic)
    ELSE log_normalization_on(d, safe_conc(d.concentration))

\* _maybe_assert_valid_sample: the error raised, if any.
maybe_assert_valid_sample(d, samples) ==
    IF ~d.validate_args THEN NoError
    ELSE IF ~UnitLength(samples) THEN ErrSampleUnit
    ELSE NoError

\* _log_unnormalized_prob: concentration * reduce_sum(samples * mean_direction)
log_unnormalized_prob(d, samples) ==
    [i \in Lanes |-> RMul(d.concentration[i], Dot(samples, d.mean_direction))]

\* a - b where b is a term.
TermSub(a, b) == IF IsNaN(a) \/ IsNaN(b) THEN NaN ELSE <<"sub", a, b>>

\* _log_prob, given what its three calls give.  An error of the graph's
\* construction comes before the assertion, which runs with the graph.
log_prob_of(assertion, unnorm, norm) ==
    IF norm.err \in GraphErrors THEN norm
    ELSE IF assertion # NoError THEN Raise(assertion)
    ELSE IF norm.err # NoError THEN norm
    ELSE [norm EXCEPT !.val = [i \in Lanes |-> TermSub(unnorm[i], norm.val[i])]]

\* _log_prob
log_prob(d, samples) ==
    log_prob_of(maybe_assert_valid_sample(d, samples),
                log_unnormalized_prob(d, samples),
                log_normalization(d))

\* Lines 292-298, given safe_conc and the two values of _bessel_ive on it.
mean_of(d, z, num, den) ==
    BesselResult(z, <<num, den>>,
        [i \in Lanes |->
            IF Positive(d.concentration[i])
            THEN <<"mean_direction * ratio", d.mean_direction,
                   num.val[i], den.val[i]>>
            ELSE <<"zeros", d.event_dim>>])

mean_on(d, z) ==
    mean_of(d, z, bessel_ive(d.event_dim, z), bessel_ive(d.event_dim - 2, z))

\* _mean
mean(d) ==
    IF ~d.static_shape THEN Raise(ErrStatic)
    ELSE mean_on(d, safe_conc(d.concentration))

\* _covariance, mutated: the guard is off by one.
covariance_guard_3(event_dim) == event_dim > 3

\* `if event_dim > 2: raise ValueError(...)`
covariance_unsupported(event_dim) == event_dim > 2

\* Lines 308-323, given safe_conc and the two values of _bessel_ive on it.
covariance_of(d, z, num, den) ==
    BesselResult(z, <<num, den>>,
        [i \in Lanes |->
            IF Positive(d.concentration[i])
            THEN <<"cov", d.mean_direction,
                   num.val[i], den.val[i], z[i]>>
            ELSE <<"eye / event_dim", d.event_dim>>])

covariance_on(d, z) ==
    covariance_of(d, z, bessel_ive(d.event_dim, z), bessel_ive(d.event_dim - 2, z))

\* _covariance
covariance(d) ==
    IF ~d.static_shape THEN Raise(ErrStatic)
    ELSE IF covariance_unsupported(d.event_dim) THEN Raise(ErrCovariance)
    ELSE covariance_on(d, safe_conc(d.concentration))

\* ------------------------------------------------------------------------
\* _sample_n for event_dim # 3: the rejection sampler of Wood (1994).
\* ------------------------------------------------------------------------
\* tf.sqrt on the perfect squares the model meets (quarters up to 5 MaxDim/4).
Sqrt(r) ==
    IF IsNaN(r) THEN NaN
    ELSE CHOOSE q \in {Rat(i, 4) : i \in 0..(5 * MaxDim)} : REq(RMul(q, q), r)

\* dim = event_dim - 1, as a real
Dim(d) == Rat(d.event_dim - 1, 1)

\* b = dim / (2 * concentration + sqrt(4 * concentration**2 + dim**2))
sample_b(d) ==
    [i \in Lanes |->
        LET kappa == d.concentration[i]
        IN  RDiv(Dim(d),
                 RAdd(RMul(R2, kappa),
                      Sqrt(RAdd(RMul(Rat(4, 1), RMul(kappa, kappa)),
                                RMul(Dim(d), Dim(d))))))]

\* x = (1 - b) / (1 + b)
sample_x(bb) == [i \in Lanes |-> RDiv(RSub(R1, bb[i]), RAdd(R1, bb[i]))]

\* The draws of one iteration.  beta.sample gives z in (0, 1) per lane.
\* tf.random_uniform gives U in [0, 1) per lane; the model has U = 0
\* (log U = -inf) and a U so close to 1 that log U is above every negative
\* value the left-hand side of the test takes ("1-").
BetaDraws == {Rat(1, 4), Rat(1, 2)}

UniformDraws == {"0", "1-"}

\* The pairs (z, U) one lane draws in one iteration.  With z = 1/2 the
\* candidate is x, where the test holds whatever U is (and it does so for
\* every z when the concentration is 0), so one U is drawn with z = 1/2.
Draws == {dr \in [z : BetaDraws, u : UniformDraws] :
             dr.z = Rat(1, 2) => dr.u = "1-"}

\* (1 - (1 + b) * z) / (1 - (1 - b) * z)
candidate(b, z) ==
    RDiv(RSub(R1, RMul(RAdd(R1, b), z)), RSub(R1, RMul(RSub(R1, b), z)))

\* The sign of  concentration * w + dim * log1p(-x * w) - c  with
\* c = concentration * x + dim * log1p(-x**2).  As a function of w it is
\* strictly concave on (-1/x.., 1/x) for concentration > 0, it is 0 at
\* w = x and its derivative there, concentration - dim x / (1 - x^2), is 0
\* by the choice of b; so it is 0 at w = x and negative elsewhere.  For
\* concentration = 0 (b = 1, x = 0, c = 0) it is 0 for every w.
test_lhs(kappa, x, cand) ==
    IF IsNaN(kappa) \/ IsNaN(x) \/ IsNaN(cand) THEN "nan"
    ELSE IF REq(kappa, R0) \/ REq(cand, x) THEN "zero"
    ELSE "negative"

\* body_fn, mutated: the comparison is the other way round.
continue_test_reversed(lhs, uniform) == ~(lhs = "negative" /\ uniform = "1-")

\* lhs < tf.log(uniform): false if lhs is NaN, false if log U = -inf.
continue_test(lhs, uniform) == lhs = "negative" /\ uniform = "1-"

\* body_fn, mutated: every lane takes the new candidate.
where_w_unmasked(should_continue, cand, w) == cand

\* w = tf.where(should_continue, candidate, w)
where_w(should_continue, cand, w) ==
    [i \in Lanes |-> IF should_continue[i] THEN cand[i] ELSE w[i]]

\* cond_fn: tf.reduce_any(should_continue)
cond_fn(should_continue) == \E i \in Lanes : should_continue[i]

\* Lines 405-409 of body_fn, w1 being the w of line 404:
\* [err, w, should_continue].  tf.check_numerics(w, 'w') is not conditional.
body_fn_test(d, xx, w0, should_continue0, w1, u01) ==
    IF \E i \in Lanes : ~IsFinite(w1[i])
    THEN [err |-> ErrWNumerics, w |-> w0, should_continue |-> should_continue0]
    ELSE [err |-> NoError,
          w |-> w1,
          should_continue |->
            [i \in Lanes |->
                /\ should_continue0[i]
                /\ continue_test(test_lhs(d.concentration[i], xx[i], w1[i]),
                                 u01[i])]]

\* Lines 401-404 of body_fn: the w of line 404, z being the beta draws.
body_fn_w(bb, w0, should_continue0, z) ==
    where_w(should_continue0, [i \in Lanes |-> candidate(bb[i], z[i])], w0)

\* ------------------------------------------------------------------------
\* _sample_3d: the inversion sampler, z the uniform draws.  [err, val].
\* ------------------------------------------------------------------------
Uniform3dDraws == {R0, Rat(1, 2)}

\* tf.log and tf.log1p: -inf at the zero of the logarithm, a term elsewhere.
NegInf == <<"-inf">>

Log(a) == IF REq(a, R0) THEN NegInf ELSE <<"log", a>>

Log1p(a) == IF REq(a, Rat(-1, 1)) THEN NegInf ELSE <<"log1p", a>>

\* 1 + tf.reduce_logsumexp([log_z, log1p_neg_z - 2 * conc]) / conc, kept as
\* a term of the two logarithms and the divisor.
inversion(log_z, log1p_neg_z, conc) ==
    <<"1 + logsumexp(log_z, log1p_neg_z - 2*conc) / conc",
      log_z, log1p_neg_z, conc>>

\* u = tf.where(tf.equal(z, 0), -tf.ones_like(u), u), mutated: u is passed
\* on as it is.
where_z0_dropped(z, u) == u

\* u = tf.where(tf.equal(z, 0), -tf.ones_like(u), u)
where_z0(z, u) ==
    [i \in Lanes |-> IF REq(z[i], R0) THEN Rat(-1, 1) ELSE u[i]]

sample_3d(d, z) ==
    LET conc1 == safe_conc(d.concentration)
        safe_z == [i \in Lanes |-> IF RGreater(z[i], R0) THEN z[i] ELSE R1]
        safe_u == [i \in Lanes |->
                     inversion(Log(safe_z[i]), Log1p(RNeg(safe_z[i])),
                               conc1[i])]
        u1 == [i \in Lanes |->
                 IF Positive(d.concentration[i]) THEN safe_u[i]
                 ELSE RSub(RMul(R2, z[i]), R1)]
        u2 == where_z0(z, u1)
    IN  IF ~d.allow_nan_stats /\ \E i \in Lanes : ~IsFinite(u2[i])
        THEN [err |-> ErrU3dNumerics, val |-> <<>>]
        ELSE [err |-> NoError, val |-> u2]

\* ------------------------------------------------------------------------
\* The rest of _sample_n: the checks made unless allow_nan_stats, the other
\* coordinates, the rotation.
\* ------------------------------------------------------------------------
IsTerm(a) == ~IsRat(a) /\ ~IsNaN(a)

\* -1.01 <= samples_dim0 <= 1.01.  The inversion term lies in [-1, 1].
Dim0InRange(a) ==
    \/ IsTerm(a)
    \/ RLeq(Rat(-101, 100), a) /\ RLeq(a, Rat(101, 100))

\* The squared norm of [dim0, sqrt(max(1 - dim0^2, 0)) * unit_otherdims],
\* unit_otherdims being of length 1.
AssembledSumSq(a) ==
    IF IsTerm(a) THEN R1
    ELSE RAdd(RMul(a, a), RMax(RSub(R1, RMul(a, a)), R0))

\* The squared norm after samples = tf.nn.l2_normalize(samples, axis=-1).
ScaledSumSq(sumsq) == RMul(sumsq, RDiv(R1, RMax(sumsq, L2Epsilon)))

NormalizedSumSq(a) == ScaledSumSq(AssembledSumSq(a))

\* atol of the assert on the sample norm, 1e-4
SampleNormTol == RDiv(R1, Rat(10000, 1))

SampleNormBand == Band(SampleNormTol)

\* 1e-5, squared
RotatedBasisTolSq == RDiv(R1, RMul(Rat(10000, 1), Million))

\* norm(_rotate(basis) - mean_direction) < 1e-5
rotated_basis_ok(d) ==
    RLess(SumSq(VSub(rotate(d.mean_direction, Basis(d.event_dim)),
                     d.mean_direction)),
          RotatedBasisTolSq)

\* Lines 415-464: the error raised by the checks, which are made only
\* if not allow_nan_stats.
assemble_error(d, dim0) ==
    IF d.allow_nan_stats THEN NoError
    ELSE IF \E i \in Lanes : ~Dim0InRange(dim0[i]) THEN ErrDim0Range
    ELSE IF \E i \in Lanes : ~IsFinite(dim0[i]) THEN ErrSamplesNumerics
    ELSE IF \E i \in Lanes : ~NormNear1(NormalizedSumSq(dim0[i]), SampleNormBand)
         THEN ErrSampleNorm
    ELSE IF ~rotated_basis_ok(d) THEN ErrRotatedBasis
    ELSE NoError

\* What sample() returns: per lane, the term
\*   rotate(l2_normalize([dim0, sqrt(max(1 - dim0^2, 0)) * unit_otherdims]))
\* with unit_otherdims the normalised tf.random_normal draw.
assemble(d, dim0) ==
    [i \in Lanes |->
        IF IsNaN(dim0[i]) THEN NaN
        ELSE <<"rotate(l2_normalize(concat([dim0, sqrt(1 - dim0^2) * unit_otherdims])))",
               dim0[i]>>]

\* ------------------------------------------------------------------------
\* The state machine.
\* ------------------------------------------------------------------------
VARIABLES
    dist,             \* the distribution object (status "unbuilt" before __init__)
    ret,              \* the call that has returned: op, err, val, bessel_z, arg, orig
    pc,               \* "idle", or where sample() stands: "while_loop", "assemble"
    w,                \* loop variable w of tf.while_loop, one entry per lane
    should_continue,  \* loop variable should_continue, one entry per lane
    uniform,          \* the tf.random_uniform draw of the last body_fn, or
                      \* of _sample_3d (its z), per lane
    b,                \* b of _sample_n, one entry per lane
    x,                \* x of _sample_n, one entry per lane
    samples_dim0,     \* samples_dim0 once the first coordinate is drawn
    iterations        \* how often body_fn has run in this call, counted up to
                      \* MaxIterations; the code keeps no such count

vars == <<dist, ret, pc, w, should_continue, uniform, b, x, samples_dim0, iterations>>

NoRet == [op |-> "none", err |-> NoError, val |-> <<>>, bessel_z |-> <<>>,
          arg |-> <<>>, orig |-> <<>>]

Returned(op, r, arg) ==
    [op |-> op, err |-> r.err, val |-> r.val, bessel_z |-> r.bessel_z,
     arg |-> arg, orig |-> <<>>]

Init ==
    /\ dist = [status |-> "unbuilt", event_dim |-> 0, static_shape |-> TRUE,
               mean_direction |-> <<>>, concentration |-> <<>>,
               validate_args |-> FALSE, allow_nan_stats |-> TRUE]
    /\ ret = NoRet
    /\ pc = "idle"
    /\ w = <<>>
    /\ should_continue = <<>>
    /\ uniform = <<>>
    /\ b = <<>>
    /\ x = <<>>
    /\ samples_dim0 = <<>>
    /\ iterations = 0

LoopVarsUnchanged ==
    UNCHANGED <<w, should_continue, uniform, b, x, samples_dim0, iterations>>

\* VonMisesFisher(mean_direction, concentration, validate_args, allow_nan_stats)
Construct ==
    /\ dist.status = "unbuilt"
    /\ \E event_dim \in 1..MaxDim, static_shape \in BOOLEAN,
          validate_args \in BOOLEAN, allow_nan_stats \in BOOLEAN :
         \E input \in CtorInputs(event_dim) :
           \E e \in {CtorError(input[1], input[2], validate_args, static_shape)} :
               dist' = [status |-> IF e = NoError THEN "built" ELSE e,
                        event_dim |-> event_dim,
                        static_shape |-> static_shape,
                        mean_direction |-> input[1],
                        concentration |-> input[2],
                        validate_args |-> validate_args,
                        allow_nan_stats |-> allow_nan_stats]
    /\ UNCHANGED <<ret, pc>>
    /\ LoopVarsUnchanged

\* A call can be made on a built object when no call is under way and the
\* last result has been taken.
Callable == dist.status = "built" /\ pc = "idle" /\ ret.op = "none"

\* The points log_prob is evaluated at; the last is not unit length.
Points(d) == {Basis(d.event_dim), d.mean_direction, Axis(d.event_dim, 1, R2)}

LogProb ==
    /\ Callable
    /\ \E pt \in Points(dist) : ret' = Returned("log_prob", log_prob(dist, pt), pt)
    /\ UNCHANGED <<dist, pc>>
    /\ LoopVarsUnchanged

Mean ==
    /\ Callable
    /\ ret' = Returned("mean", mean(dist), <<>>)
    /\ UNCHANGED <<dist, pc>>
    /\ LoopVarsUnchanged

Covariance ==
    /\ Callable
    /\ ret' = Returned("covariance", covariance(dist), <<>>)
    /\ UNCHANGED <<dist, pc>>
    /\ LoopVarsUnchanged

\* The vectors _rotate is applied to.
RotateArgs(d) ==
    { Basis(d.event_dim), d.mean_direction,
      [i \in 1..d.event_dim |-> IF i = 2 THEN R1 ELSE R0],
      [i \in 1..d.event_dim |-> IF i = 1 THEN R2 ELSE Rat(-1, 1)] }

\* _rotate(samples)
Rotate ==
    /\ Callable
    /\ \E samples \in RotateArgs(dist) :
         ret' = [NoRet EXCEPT !.op = "rotate",
                              !.val = rotate(dist.mean_direction, samples),
                              !.arg = samples]
    /\ UNCHANGED <<dist, pc>>
    /\ LoopVarsUnchanged

\* _rotate applied to what _rotate returned.
RotateAgain ==
    /\ dist.status = "built" /\ pc = "idle"
    /\ ret.op = "rotate" /\ ret.orig = <<>>
    /\ ret' = [ret EXCEPT !.val = rotate(dist.mean_direction, ret.val),
                          !.arg = ret.val,
                          !.orig = ret.arg]
    /\ UNCHANGED <<dist, pc>>
    /\ LoopVarsUnchanged

\* `if event_dim == 3`: event_dim is the static value when there is one, and
\* otherwise a tensor, which is not equal to 3.
Use3d(d) == d.static_shape /\ d.event_dim = 3

\* sample(1), to the first coordinate: _sample_3d, or the loop variables
\* w = zeros, should_continue = ones.
SampleStart ==
    /\ Callable
    /\ dist.event_dim >= 2
    /\ IF Use3d(dist)
       THEN \E z \in [Lanes -> Uniform3dDraws] :
              \E r \in {sample_3d(dist, z)} :
                  IF r.err # NoError
                  THEN /\ ret' = [NoRet EXCEPT !.op = "sample", !.err = r.err]
                       /\ UNCHANGED <<pc, samples_dim0, uniform>>
                  ELSE /\ samples_dim0' = r.val
                       /\ uniform' = z
                       /\ pc' = "assemble"
                       /\ UNCHANGED ret
            /\ UNCHANGED <<w, should_continue, b, x>>
       ELSE /\ b' = sample_b(dist)
            /\ x' = sample_x(b')
            /\ w' = [i \in Lanes |-> R0]
            /\ should_continue' = [i \in Lanes |-> TRUE]
            /\ pc' = "while_loop"
            /\ UNCHANGED <<ret, samples_dim0, uniform>>
    /\ UNCHANGED <<dist, iterations>>

\* One iteration of tf.while_loop(cond_fn, body_fn, (w, should_continue)):
\* body_fn with the draws z of beta.sample and u of tf.random_uniform.
WhileBody ==
    /\ pc = "while_loop"
    /\ cond_fn(should_continue)
    /\ \E z \in [Lanes -> BetaDraws] :
       \E w1 \in {body_fn_w(b, w, should_continue, z)} :
       \E u \in {uu \in [Lanes -> UniformDraws] :
                   \A i \in Lanes : [z |-> z[i], u |-> uu[i]] \in Draws} :
         \E r \in {body_fn_test(dist, x, w, should_continue, w1, u)} :
             IF r.err # NoError
             THEN /\ ret' = [NoRet EXCEPT !.op = "sample", !.err = r.err]
                  /\ pc' = "idle"
                  /\ w' = <<>>
                  /\ should_continue' = <<>>
                  /\ uniform' = <<>>
                  /\ b' = <<>>
                  /\ x' = <<>>
                  /\ iterations' = 0
             ELSE /\ w' = r.w
                  /\ should_continue' = r.should_continue
                  /\ uniform' = u
                  /\ iterations' = IF iterations < MaxIterations
                                   THEN iterations + 1 ELSE iterations
                  /\ UNCHANGED <<ret, pc, b, x>>
    /\ UNCHANGED <<dist, samples_dim0>>

\* The loop ends: samples_dim0 = tf.while_loop(...)[0]; the loop variables
\* and the locals of body_fn are not used again.
WhileExit ==
    /\ pc = "while_loop"
    /\ ~cond_fn(should_continue)
    /\ samples_dim0' = w
    /\ pc' = "assemble"
    /\ w' = <<>>
    /\ should_continue' = <<>>
    /\ uniform' = <<>>
    /\ iterations' = 0
    /\ UNCHANGED <<dist, ret, b, x>>

\* The rest of _sample_n; sample() returns.
Assemble ==
    /\ pc = "assemble"
    /\ \E e \in {assemble_error(dist, samples_dim0)} :
           IF e # NoError
           THEN ret' = [NoRet EXCEPT !.op = "sample", !.err = e]
           ELSE ret' = [NoRet EXCEPT !.op = "sample",
                                     !.val = assemble(dist, samples_dim0),
                                     !.arg = samples_dim0]
    /\ pc' = "idle"
    /\ w' = <<>>
    /\ should_continue' = <<>>
    /\ uniform' = <<>>
    /\ b' = <<>>
    /\ x' = <<>>
    /\ samples_dim0' = <<>>
    /\ iterations' = 0
    /\ UNCHANGED dist

\* The caller takes the result (or the exception).
Return ==
    /\ pc = "idle"
    /\ ret.op # "none"
    /\ ret' = NoRet
    /\ UNCHANGED <<dist, pc>>
    /\ LoopVarsUnchanged

Next ==
    \/ Construct
    \/ LogProb
    \/ Mean
    \/ Covariance
    \/ Rotate
    \/ RotateAgain
    \/ SampleStart
    \/ WhileBody
    \/ WhileExit
    \/ Assemble
    \/ Return

Spec == Init /\ [][Next]_vars

\* ------------------------------------------------------------------------
\* The claims.
\* ------------------------------------------------------------------------
\* The mean direction of d has length exactly 1.
ValidMu(d) == REq(SumSq(d.mean_direction), R1)

NonNegative(concentration) == \A i \in Lanes : RLeq(R0, concentration[i])

\* C1: the rejection loop is bounded by an iteration cap: once the counted
\* number of iterations has been made the loop goes on no more, whether or
\* not every lane has accepted.
C1_IterationCap ==
    (pc = "while_loop" /\ iterations >= MaxIterations) => ~cond_fn(should_continue)

\* C2: for an event dimension 2..5 and concentrations >= 0, mean() raises
\* nothing; a lane with concentration > 0 gets mean_direction times the
\* Bessel ratio and a lane with concentration 0 the zero vector.
C2_MeanReturns ==
    (/\ ret.op = "mean"
     /\ dist.static_shape
     /\ dist.event_dim \in 2..5
     /\ NonNegative(dist.concentration))
    => /\ ret.err = NoError
       /\ \A i \in Lanes :
            IF Positive(dist.concentration[i])
            THEN ret.val[i][1] = "mean_direction * ratio"
            ELSE ret.val[i] = <<"zeros", dist.event_dim>>

\* C3: no distribution object exists with an event dimension below 2 or
\* above 5, whatever validate_args is.
C3_CtorRejectsDimension == dist.status = "built" => dist.event_dim \in 2..5

\* C4: with allow_nan_stats true, no call ends with a numerical-instability
\* error.
C4_UnsafeStatsNeverAbort == dist.allow_nan_stats => ret.err \notin NumericalErrors

\* |u - v| < 1e-5, the tolerance of the rotated-basis check.
Within(u, v) == RLess(SumSq(VSub(u, v)), RotatedBasisTolSq)

\* l2_normalize divides basis - mu by its length and not by sqrt(epsilon).
NotClamped(mu) == ~RLess(SumSq(VSub(Basis(Len(mu)), mu)), L2Epsilon)

\* C5: for a unit mean direction mu, rotate(basis) is mu and rotate(mu) is
\* the basis vector, to within 1e-5 in every case and exactly when mu is the
\* basis vector or l2_normalize divides by the length; and sample() never
\* ends with the rotated-basis error.
C5_RotateSwapsBasisAndMu ==
    ValidMu(dist) =>
      /\ (ret.op = "rotate" /\ VEq(ret.arg, Basis(dist.event_dim)))
           => /\ Within(ret.val, dist.mean_direction)
              /\ (NotClamped(dist.mean_direction)
                    \/ VEq(dist.mean_direction, Basis(dist.event_dim)))
                   => VEq(ret.val, dist.mean_direction)
      /\ (ret.op = "rotate" /\ VEq(ret.arg, dist.mean_direction))
           => /\ Within(ret.val, Basis(dist.event_dim))
              /\ (NotClamped(dist.mean_direction)
                    \/ VEq(dist.mean_direction, Basis(dist.event_dim)))
                   => VEq(ret.val, Basis(dist.event_dim))
      /\ ret.op = "sample" => ret.err # ErrRotatedBasis

\* rotate(basis) has returned for a unit mean direction that is not the
\* basis vector and so close to it that l2_normalize divides by sqrt(epsilon).
C5_Witness ==
    /\ ret.op = "rotate"
    /\ ValidMu(dist)
    /\ VEq(ret.arg, Basis(dist.event_dim))
    /\ ~VEq(dist.mean_direction, Basis(dist.event_dim))
    /\ ~NotClamped(dist.mean_direction)
    /\ Within(ret.val, dist.mean_direction)

\* C6: for a unit mean direction, rotate(rotate(v)) = v.
C6_RotateSelfInverse ==
    (ret.op = "rotate" /\ ret.orig # <<>> /\ ValidMu(dist))
    => VEq(ret.val, ret.orig)

\* The normalization term of a lane of a log_prob result.
LogNormTerm(val) == val[3]

\* C7: the log-normalization dispatches per lane: a lane with concentration
\* 0 gets the log surface area, a lane with concentration > 0 the Bessel
\* term of its own concentration; the Bessel evaluator is called on positive
\* arguments only (1 for a lane with concentration 0) and raises nothing.
C7_LogNormalizationPerLane ==
    (ret.op = "log_prob" /\ ret.bessel_z # <<>>)
    => /\ ret.err = NoError
       /\ \A i \in Lanes :
            /\ RGreater(ret.bessel_z[i], R0)
            /\ REq(dist.concentration[i], R0)
                 => /\ REq(ret.bessel_z[i], R1)
                    /\ LogNormTerm(ret.val[i])
                         = <<"log_nsphere_surface_area", dist.event_dim>>
            /\ Positive(dist.concentration[i])
                 => /\ REq(ret.bessel_z[i], dist.concentration[i])
                    /\ LogNormTerm(ret.val[i])[1] = "-safe_lognorm"
                    /\ LogNormTerm(ret.val[i])[3] = dist.concentration[i]

\* log_prob has returned for a batch with a lane at concentration 0 and a
\* lane at a positive concentration.
C7_Witness ==
    /\ ret.op = "log_prob"
    /\ ret.err = NoError
    /\ \E i \in Lanes : REq(dist.concentration[i], R0)
    /\ \E i \in Lanes : Positive(dist.concentration[i])

\* C8: covariance() raises the unsupported-dimension error exactly when the
\* event dimension is above 2; for an event dimension up to 2 and
\* concentrations >= 0 it raises nothing, and a lane with concentration 0
\* gets the identity divided by the event dimension.
C8_CovarianceSupport ==
    (ret.op = "covariance" /\ dist.static_shape)
    => /\ (ret.err = ErrCovariance) <=> (dist.event_dim > 2)
       /\ (dist.event_dim <= 2 /\ NonNegative(dist.concentration))
            => /\ ret.err = NoError
               /\ \A i \in Lanes :
                    REq(dist.concentration[i], R0)
                      => ret.val[i] = <<"eye / event_dim", dist.event_dim>>

\* covariance() has returned for event dimension 2 with a lane at 0.
C8_Witness ==
    /\ ret.op = "covariance"
    /\ dist.static_shape
    /\ dist.event_dim = 2
    /\ ret.err = NoError
    /\ \E i \in Lanes : REq(dist.concentration[i], R0)
    /\ \E i \in Lanes : Positive(dist.concentration[i])

\* One more iteration of the loop has been made.
Iterated == pc = "while_loop" /\ pc' = "while_loop"

IsCandidate(i, wi) == \E z \in BetaDraws : REq(wi, candidate(b[i], z))

\* C9: acceptance is permanent and per lane: in an iteration, a lane that
\* has accepted stays accepted and keeps its w, and a lane that is pending
\* gets a new candidate.
C9_AcceptancePermanent ==
    [][Iterated =>
         \A i \in Lanes :
           IF should_continue[i]
           THEN IsCandidate(i, w'[i])
           ELSE ~should_continue'[i] /\ w'[i] = w[i]]_vars

\* The loop stands after an iteration with one lane accepted, at a value
\* other than the last candidate of a lane that is pending.
C9_Witness ==
    /\ pc = "while_loop"
    /\ iterations >= 2
    /\ \E i, j \in Lanes :
         /\ ~should_continue[i]
         /\ should_continue[j]
         /\ ~REq(w[i], w[j])

\* The acceptance test of the claim: lhs >= log U.
Accepts(lhs, u01) == lhs = "zero" \/ (lhs = "negative" /\ u01 = "0")

\* C10: the loop starts with every lane pending (and w = 0), it goes on
\* exactly while a lane is pending, a lane becomes accepted only in an
\* iteration whose candidate passes the test, and what the loop returns for
\* a lane is a candidate.
C10_LoopReturnsAccepted ==
    [][/\ (pc = "idle" /\ pc' = "while_loop")
            => \A i \in Lanes : should_continue'[i] /\ REq(w'[i], R0)
       /\ Iterated => \E i \in Lanes : should_continue[i]
       /\ Iterated
            => \A i \in Lanes :
                 (should_continue[i] /\ ~should_continue'[i])
                   => /\ IsCandidate(i, w'[i])
                      /\ Accepts(test_lhs(dist.concentration[i], x[i], w'[i]),
                                 uniform'[i])
       /\ (pc = "while_loop" /\ pc' = "assemble")
            => /\ \A i \in Lanes : ~should_continue[i]
               /\ samples_dim0' = w
               /\ \A i \in Lanes : IsCandidate(i, samples_dim0'[i])]_vars

\* The loop has ended and returned, for a lane, a candidate that passed the
\* test only thanks to the uniform draw.
C10_Witness ==
    /\ pc = "assemble"
    /\ ~Use3d(dist)
    /\ \E i \in Lanes :
         test_lhs(dist.concentration[i], x[i], samples_dim0[i]) = "negative"

\* The lane's u was computed from a logarithm, or a reciprocal, taken at
\* zero.
AtZero(u) ==
    /\ IsTerm(u)
    /\ Len(u) = 4
    /\ (u[2] = NegInf \/ u[3] = NegInf \/ REq(u[4], R0))

\* C11: in the D = 3 inversion sampler, a lane with z = 0 gets u = -1
\* whatever its concentration; otherwise a lane of concentration 0 gets
\* u = 2z - 1, and a lane of positive concentration gets
\* 1 + logsumexp(log z, log(1 - z) - 2 kappa) / kappa of its own z and
\* kappa.  Where z = 0 and kappa = 0 both hold, 2z - 1 is -1 as well.  No
\* lane's u comes from a logarithm or a reciprocal taken at zero.
C11_InversionSampler ==
    (pc = "assemble" /\ Use3d(dist))
        => \A i \in Lanes :
             LET zi == uniform[i]
                 kappa == dist.concentration[i]
                 u == samples_dim0[i]
             IN  /\ REq(zi, R0)
                      => /\ REq(u, Rat(-1, 1))
                         /\ REq(RSub(RMul(R2, zi), R1), u)
                 /\ (~REq(zi, R0) /\ REq(kappa, R0))
                      => REq(u, RSub(RMul(R2, zi), R1))
                 /\ (~REq(zi, R0) /\ Positive(kappa))
                      => u = inversion(Log(zi), Log1p(RNeg(zi)), kappa)
                 /\ ~AtZero(u)

\* The inversion sampler has returned for a batch where one lane drew z = 0
\* at a positive concentration and another drew z > 0 at concentration 0.
C11_Witness ==
    /\ pc = "assemble"
    /\ Use3d(dist)
    /\ \E i, j \in Lanes :
         /\ REq(uniform[i], R0)
         /\ Positive(dist.concentration[i])
         /\ REq(samples_dim0[i], Rat(-1, 1))
         /\ ~REq(uniform[j], R0)
         /\ REq(dist.concentration[j], R0)

====
